---- MODULE Spec2Model ----
(***************************************************************************)
(* A model of src/app.py, the Streamlit front-end of the vernacular AI     *)
(* agent.  One run of the script (session init followed by main()) is one  *)
(* render cycle.  The session state that survives a cycle is               *)
(* chat_history and the two last-seen attachment lists; the temporary WAV  *)
(* files live in the file system.                                          *)
(*                                                                         *)
(* Texts are sequences of character codes: 0 is a whitespace character,    *)
(* every other code stands for a run of non-whitespace characters.  File   *)
(* names and MIME types are sequences of one-character strings.            *)
(***************************************************************************)
EXTENDS Integers, Sequences, FiniteSets, TLC

VARIABLES
    chat_history,          \* st.session_state.chat_history
    last_uploaded_docs,    \* st.session_state.last_uploaded_docs
    last_uploaded_images,  \* st.session_state.last_uploaded_images
    recorded,              \* turns recorded since the first state (bounds the run)
    cycle,                 \* what the last script run did (history variable)
    gm_args,               \* arguments of a direct generate_message call
    gm_result,             \* what that call did
    sf_arg,                \* argument of a direct sanitize_filename call
    sf_result              \* the values of its successive applications

vars == <<chat_history, last_uploaded_docs, last_uploaded_images, recorded,
          cycle, gm_args, gm_result, sf_arg, sf_result>>

-----------------------------------------------------------------------------
(* Bounds of the model *)

\* Turns a run records.
MaxTurns == 2

\* Characters of a file name passed to sanitize_filename on its own.
MaxNameLen == 4

-----------------------------------------------------------------------------
(* Program constants *)

HistoryCap == 50
MaxDocs == 5
MaxImages == 20
DocLimit == 4718592
ImageLimit == 3932160

GovTool == "government_scheme_info"

DocFormats ==
    { <<"t","x","t">>, <<"p","d","f">>, <<"d","o","c","x">>,
      <<"c","s","v">>, <<"j","s","o","n">> }

-----------------------------------------------------------------------------
(* Python's sequence and string primitives *)

\* s[:n]
Take(s, n) == SubSeq(s, 1, IF Len(s) < n THEN Len(s) ELSE n)

\* s[-n:]
LastN(s, n) == IF Len(s) <= n THEN s ELSE SubSeq(s, Len(s) - n + 1, Len(s))

\* The text typed into no widget (None).
None == <<-1>>

WhitespaceCode == 0

\* bool(text): None and "" are falsy.
Truthy(t) == t # None /\ t # <<>>

RECURSIVE LStrip(_)
LStrip(t) ==
    IF t # <<>> /\ Head(t) = WhitespaceCode THEN LStrip(Tail(t)) ELSE t

RECURSIVE RStrip(_)
RStrip(t) ==
    IF t # <<>> /\ t[Len(t)] = WhitespaceCode
    THEN RStrip(SubSeq(t, 1, Len(t) - 1))
    ELSE t

\* str.strip()
Strip(t) == RStrip(LStrip(t))

\* Index of the last occurrence of character c in s, 0 when there is none.
LastIndexOf(s, c) ==
    LET hits == {i \in 1..Len(s) : s[i] = c}
    IN  IF hits = {} THEN 0 ELSE CHOOSE i \in hits : \A j \in hits : j <= i

\* s.split(c)[-1]
SplitLast(s, c) == SubSeq(s, LastIndexOf(s, c) + 1, Len(s))

\* s.rsplit(c, 1)[0]
RSplitFirst(s, c) ==
    IF LastIndexOf(s, c) = 0 THEN s ELSE SubSeq(s, 1, LastIndexOf(s, c) - 1)

UpperLetters ==
    {"A","B","C","D","E","F","G","H","I","J","K","L","M",
     "N","O","P","Q","R","S","T","U","V","W","X","Y","Z"}

LowerLetters ==
    {"a","b","c","d","e","f","g","h","i","j","k","l","m",
     "n","o","p","q","r","s","t","u","v","w","x","y","z"}

Digits == {"0","1","2","3","4","5","6","7","8","9"}

SpaceChars == {" ", "\t", "\n"}

LowerOf ==
    [c \in UpperLetters |->
        CASE c = "A" -> "a" [] c = "B" -> "b" [] c = "C" -> "c" [] c = "D" -> "d"
          [] c = "E" -> "e" [] c = "F" -> "f" [] c = "G" -> "g" [] c = "H" -> "h"
          [] c = "I" -> "i" [] c = "J" -> "j" [] c = "K" -> "k" [] c = "L" -> "l"
          [] c = "M" -> "m" [] c = "N" -> "n" [] c = "O" -> "o" [] c = "P" -> "p"
          [] c = "Q" -> "q" [] c = "R" -> "r" [] c = "S" -> "s" [] c = "T" -> "t"
          [] c = "U" -> "u" [] c = "V" -> "v" [] c = "W" -> "w" [] c = "X" -> "x"
          [] c = "Y" -> "y" [] OTHER -> "z"]

\* str.lower()
Lower(s) == [i \in 1..Len(s) |-> IF s[i] \in UpperLetters THEN LowerOf[s[i]] ELSE s[i]]

-----------------------------------------------------------------------------
(* sanitize_filename *)

\* The characters the first re.sub keeps.
KeptChars ==
    UpperLetters \cup LowerLetters \cup Digits \cup SpaceChars
        \cup {"-", "(", ")", "[", "]"}

\* ReplaceDisallowed with the dot kept.
ReplaceDisallowedKeepsDots(s) ==
    [i \in 1..Len(s) |-> IF s[i] \in KeptChars \cup {"."} THEN s[i] ELSE "_"]

\* re.sub(r"[^A-Za-z0-9\s\-\(\)\[\]]", "_", s)
ReplaceDisallowed(s) == [i \in 1..Len(s) |-> IF s[i] \in KeptChars THEN s[i] ELSE "_"]

\* re.sub(r"\s+", " ", s)
RECURSIVE CollapseSpaces(_)
CollapseSpaces(s) ==
    IF s = <<>> THEN <<>>
    ELSE IF Head(s) \in SpaceChars
         THEN IF Len(s) > 1 /\ s[2] \in SpaceChars
              THEN CollapseSpaces(Tail(s))
              ELSE <<" ">> \o CollapseSpaces(Tail(s))
         ELSE <<Head(s)>> \o CollapseSpaces(Tail(s))

RECURSIVE StripSpaces(_)
StripSpaces(s) ==
    IF s # <<>> /\ Head(s) \in SpaceChars THEN StripSpaces(Tail(s))
    ELSE IF s # <<>> /\ s[Len(s)] \in SpaceChars
         THEN StripSpaces(SubSeq(s, 1, Len(s) - 1))
         ELSE s

sanitize_filename(filename) ==
    StripSpaces(CollapseSpaces(ReplaceDisallowed(RSplitFirst(filename, "."))))

-----------------------------------------------------------------------------
(* Uploaded files (Streamlit's UploadedFile: name, type, size, content).    *)
(* Two uploads are equal when they are the same file, so every file of the  *)
(* catalogue has its own content.                                           *)

File(name, type, size, bytes) ==
    [name |-> name, type |-> type, size |-> size, bytes |-> bytes]

TextPlain == <<"t","e","x","t","/","p","l","a","i","n">>
ImagePng == <<"i","m","a","g","e","/","p","n","g">>

DocOk == File(<<"r","e","p",".","v","2",".","p","d","f">>, TextPlain, 2097152, "d1")
DocAtLimit == File(<<"n",".","C","S","V">>, TextPlain, DocLimit, "d2")
DocJson == File(<<"a"," ","b",".","j","s","o","n">>, TextPlain, 10, "d3")
DocDocx == File(<<"c",".","d","o","c","x">>, TextPlain, 10, "d4")
DocTxt == File(<<"e",".","t","x","t">>, TextPlain, 10, "d5")
DocBig == File(<<"b",".","t","x","t">>, TextPlain, DocLimit + 1, "d6")
DocExe == File(<<"x",".","e","x","e">>, TextPlain, 1024, "d7")

\* The document lists a user may have in the uploader.
DocSets ==
    { <<>>,
      <<DocOk>>,
      <<DocBig>>,
      <<DocExe>>,
      <<DocOk, DocAtLimit, DocJson, DocDocx, DocTxt, DocBig>> }

ImgAtLimit == File(<<"p",".","p","n","g">>, ImagePng, ImageLimit, <<"i", 1>>)
ImgBig == File(<<"q",".","p","n","g">>, ImagePng, ImageLimit + 1, <<"i", 0>>)

\* MaxImages + 1 images: the first at the size limit, the last over it.
ManyImages ==
    [i \in 1..(MaxImages + 1) |->
        IF i = 1 THEN ImgAtLimit
        ELSE IF i = MaxImages + 1
             THEN File(<<"z",".","p","n","g">>, ImagePng, ImageLimit + 1, <<"i", i>>)
             ELSE File(<<"s",".","p","n","g">>, ImagePng, 1024, <<"i", i>>)]

\* The image lists a user may have in the uploader.
ImgSets == { <<>>, <<ImgAtLimit>>, <<ImgBig>>, ManyImages }

\* The uploads a session goes through.
UploadedDocs == { <<>>, <<DocBig>> }

UploadedImages == { <<>>, <<ImgAtLimit>> }

-----------------------------------------------------------------------------
(* Messages of the Converse API *)

TextBlock(t) == [text |-> t]

ToolUseBlock(name, id, input) ==
    [toolUse |-> [name |-> name, toolUseId |-> id, input |-> input]]

IsText(b) == "text" \in DOMAIN b

IsToolUse(b) == "toolUse" \in DOMAIN b

Message(role, content) == [role |-> role, content |-> content]

\* A response of bedrock_client.converse, or the call raising ClientError.
Response(stop, content) ==
    [raises |-> FALSE, stopReason |-> stop, message |-> Message("assistant", content)]

Raises == [raises |-> TRUE, stopReason |-> "", message |-> Message("assistant", <<>>)]

Query(q) == [query |-> q]

NoQuery == [topic |-> <<7>>]

\* What the first call of a turn may answer.
FirstResponses ==
    { Raises,
      Response("end_turn", <<TextBlock(<<100>>)>>),
      Response("end_turn", <<>>),
      Response("tool_use", <<TextBlock(<<102>>), ToolUseBlock(GovTool, "t1", Query(<<5>>))>>),
      Response("tool_use", <<ToolUseBlock(GovTool, "t1", Query(<<5>>)),
                             ToolUseBlock(GovTool, "t2", Query(<<6>>))>>),
      Response("tool_use", <<TextBlock(<<102>>), ToolUseBlock("web_search", "t1", Query(<<5>>))>>),
      Response("tool_use", <<ToolUseBlock("web_search", "t1", Query(<<5>>))>>),
      Response("tool_use", <<ToolUseBlock("web_search", "t1", Query(<<5>>)),
                             ToolUseBlock(GovTool, "t2", Query(<<6>>))>>),
      Response("tool_use", <<ToolUseBlock(GovTool, "t1", NoQuery)>>) }

\* What the follow-up call may answer.
SecondResponses ==
    { Raises,
      Response("end_turn", <<TextBlock(<<100>>)>>),
      Response("tool_use", <<TextBlock(<<100>>), ToolUseBlock(GovTool, "t3", Query(<<5>>))>>),
      Response("tool_use", <<ToolUseBlock(GovTool, "t3", Query(<<5>>))>>) }

\* What the Bedrock agent does when the tool calls it: creating the client
\* may raise, invoke_agent may raise, reading the stream may raise after
\* some chunks, or the stream ends after its chunks.
AgentRun(client, invoke, chunks, stream) ==
    [client_ok |-> client, invoke_ok |-> invoke, chunks |-> chunks, stream_ok |-> stream]

AgentRuns ==
    { AgentRun(FALSE, TRUE, <<>>, TRUE),
      AgentRun(TRUE, FALSE, <<>>, TRUE),
      AgentRun(TRUE, TRUE, << <<50>> >>, FALSE),
      AgentRun(TRUE, TRUE, <<>>, TRUE),
      AgentRun(TRUE, TRUE, << <<50>>, <<51>> >>, TRUE) }

\* The environment variables the script reads on every run.
Env(agent, sarvam) == [agent_ids |-> agent, sarvam_key |-> sarvam]

-----------------------------------------------------------------------------
(* get_government_scheme_info *)

RECURSIVE Concat(_)
Concat(chunks) == IF chunks = <<>> THEN <<>> ELSE Head(chunks) \o Concat(Tail(chunks))

\* The tool either returns a dict or lets an exception out; agent_calls
\* counts its invoke_agent requests.
ToolReturn(key, value, calls) ==
    [raised |-> FALSE, value |-> [key |-> key, value |-> value], agent_calls |-> calls]

ToolRaise == [raised |-> TRUE, value |-> [key |-> "", value |-> ""], agent_calls |-> 0]

get_government_scheme_info(query, env, agent) ==
    IF ~env.agent_ids
    THEN ToolReturn("error", "Bedrock agent configuration missing", 0)
    ELSE IF ~agent.client_ok
    THEN ToolRaise
    ELSE IF ~agent.invoke_ok \/ ~agent.stream_ok
    THEN ToolReturn("error", "Failed to retrieve information due to internal error.", 1)
    ELSE IF Concat(agent.chunks) = <<>>
    THEN ToolReturn("error", "No relevant information found for your query.", 1)
    ELSE ToolReturn("detail", Concat(agent.chunks), 1)

-----------------------------------------------------------------------------
(* generate_message *)

\* DocCheck with the size limit itself refused.
DocCheckBelowLimit(doc) ==
    IF doc.size >= DocLimit THEN "exceeds 4.5MB limit"
    ELSE IF Lower(SplitLast(doc.name, ".")) \notin DocFormats
         THEN "Unsupported document format"
         ELSE "ok"

DocCheck(doc) ==
    IF doc.size > DocLimit THEN "exceeds 4.5MB limit"
    ELSE IF Lower(SplitLast(doc.name, ".")) \notin DocFormats
         THEN "Unsupported document format"
         ELSE "ok"

ImageCheck(img) == IF img.size > ImageLimit THEN "exceeds 3.75MB limit" ELSE "ok"

DocumentBlock(doc) ==
    [document |-> [name |-> sanitize_filename(doc.name),
                   format |-> Lower(SplitLast(doc.name, ".")),
                   source |-> doc.bytes]]

ImageBlock(img) ==
    [image |-> [format |-> SplitLast(img.type, "/"), source |-> img.bytes]]

\* UsedDocs without the slice.
UsedDocsAll(documents) == documents

\* The documents and the images the two loops visit.
UsedDocs(documents) == Take(documents, MaxDocs)

UsedImages(images) == Take(images, MaxImages)

\* The checks in the order the loops make them; the first that fails raises.
AttachmentChecks(documents, images) ==
    [i \in 1..Len(UsedDocs(documents)) |-> DocCheck(UsedDocs(documents)[i])]
        \o [i \in 1..Len(UsedImages(images)) |-> ImageCheck(UsedImages(images)[i])]

FirstFailure(checks) ==
    LET bad == {i \in 1..Len(checks) : checks[i] # "ok"}
    IN  IF bad = {} THEN "ok" ELSE checks[CHOOSE i \in bad : \A j \in bad : i <= j]

\* ValidationFailure without the strip() test of the prompt.
ValidationFailureNoStrip(input_text, documents, images) ==
    IF ~Truthy(input_text)
    THEN "Input text cannot be empty"
    ELSE FirstFailure(AttachmentChecks(documents, images))

\* The ValueError generate_message raises before it builds any message.
ValidationFailure(input_text, documents, images) ==
    IF ~Truthy(input_text) \/ ~Truthy(Strip(input_text))
    THEN "Input text cannot be empty"
    ELSE FirstFailure(AttachmentChecks(documents, images))

\* ContentBlocks with the image blocks put before the document blocks.
ContentBlocksImagesFirst(input_text, documents, images) ==
    <<TextBlock(input_text)>>
        \o [i \in 1..Len(UsedImages(images)) |-> ImageBlock(UsedImages(images)[i])]
        \o [i \in 1..Len(UsedDocs(documents)) |-> DocumentBlock(UsedDocs(documents)[i])]

ContentBlocks(input_text, documents, images) ==
    <<TextBlock(input_text)>>
        \o [i \in 1..Len(UsedDocs(documents)) |-> DocumentBlock(UsedDocs(documents)[i])]
        \o [i \in 1..Len(UsedImages(images)) |-> ImageBlock(UsedImages(images)[i])]

\* History entries become text-only messages, oldest first.
ProjectHistory(history) ==
    [i \in 1..Len(history) |-> Message(history[i].role, <<TextBlock(history[i].text)>>)]

FirstMessages(input_text, documents, images, history) ==
    Append(ProjectHistory(history),
           Message("user", ContentBlocks(input_text, documents, images)))

Request(messages, system) == [messages |-> messages, system |-> system, tools |-> {GovTool}]

\* ToolLoop handling a toolUse entry of any name.
RECURSIVE ToolLoopAnyName(_, _)
ToolLoopAnyName(content, i) ==
    IF i > Len(content) THEN 0
    ELSE IF IsToolUse(content[i]) THEN i
    ELSE ToolLoopAnyName(content, i + 1)

\* The for loop over the tool requests, from entry i on: the index of the
\* entry whose body runs and returns from generate_message, 0 when the loop
\* runs to its end.
RECURSIVE ToolLoop(_, _)
ToolLoop(content, i) ==
    IF i > Len(content) THEN 0
    ELSE IF IsToolUse(content[i]) /\ content[i].toolUse.name = GovTool THEN i
    ELSE ToolLoop(content, i + 1)

\* The tool requests the loop handles: the return inside the loop ends it
\* at the first toolUse entry named government_scheme_info.
HandledToolUses(content) ==
    IF ToolLoop(content, 1) = 0 THEN <<>> ELSE <<content[ToolLoop(content, 1)].toolUse>>

\* The ToolResult built for one tool request, with the tool's own report.
RunTool(tool, env, agent) ==
    IF "query" \notin DOMAIN tool.input
    THEN [invoked |-> <<>>, agent_calls |-> 0,
          result |-> [toolUseId |-> tool.toolUseId,
                      content |-> [text |-> <<"Tool Result: ", "KeyError">>],
                      status |-> "error"]]
    ELSE LET r == get_government_scheme_info(tool.input.query, env, agent)
         IN  [invoked |-> <<tool.input.query>>, agent_calls |-> r.agent_calls,
              result |->
                  IF r.raised
                  THEN [toolUseId |-> tool.toolUseId,
                        content |-> [text |-> <<"Tool Result: ", "Exception">>],
                        status |-> "error"]
                  ELSE [toolUseId |-> tool.toolUseId,
                        content |-> [json |-> <<"Tool Result: ", r.value>>]]]

ToolResultMessage(tool_result) == Message("user", <<[toolResult |-> tool_result]>>)

\* What a call of generate_message did.
\*   raised       "" when it returned, else the exception's class
\*   message      the message it returned
\*   requests     the converse requests it made, in order
\*   tool_calls   the queries it passed to get_government_scheme_info
\*   tool_results the ToolResults it built
\*   agent_calls  the invoke_agent requests of the tool
GmOutcome(raised, detail, message, requests, tools) ==
    [raised |-> raised, detail |-> detail, message |-> message,
     requests |-> requests,
     tool_calls |-> IF tools = <<>> THEN <<>> ELSE tools[1].invoked,
     tool_results |-> [i \in 1..Len(tools) |-> tools[i].result],
     agent_calls |-> IF tools = <<>> THEN 0 ELSE tools[1].agent_calls]

NoMessage == Message("", <<>>)

\* generate_message resolving a second tool_use with another tool call and
\* a third backend call.
generate_messageResolvesAgain(input_text, documents, images, history, env, first, agent, second) ==
    LET failure == ValidationFailure(input_text, documents, images)
        messages == FirstMessages(input_text, documents, images, history)
        request1 == Request(messages, TRUE)
        handled == IF first.stopReason = "tool_use"
                   THEN HandledToolUses(first.message.content)
                   ELSE <<>>
        tools == [i \in 1..Len(handled) |-> RunTool(handled[i], env, agent)]
        request2 == Request(messages \o <<first.message>>
                                \o [i \in 1..Len(tools) |-> ToolResultMessage(tools[i].result)],
                            FALSE)
        again == IF second.stopReason = "tool_use"
                 THEN HandledToolUses(second.message.content)
                 ELSE <<>>
        tools2 == [i \in 1..Len(again) |-> RunTool(again[i], env, agent)]
        request3 == Request(request2.messages \o <<second.message>>
                                \o [i \in 1..Len(tools2) |-> ToolResultMessage(tools2[i].result)],
                            FALSE)
    IN  IF failure # "ok"
        THEN GmOutcome("ValueError", failure, NoMessage, <<>>, <<>>)
        ELSE IF first.raises
        THEN GmOutcome("ClientError", "first call", NoMessage, <<request1>>, <<>>)
        ELSE IF handled = <<>>
        THEN GmOutcome("", "", first.message, <<request1>>, <<>>)
        ELSE IF second.raises
        THEN GmOutcome("ClientError", "follow-up call", NoMessage, <<request1, request2>>, tools)
        ELSE IF again = <<>>
        THEN GmOutcome("", "", second.message, <<request1, request2>>, tools)
        ELSE GmOutcome("", "", second.message, <<request1, request2, request3>>,
                       tools \o tools2)

generate_message(input_text, documents, images, history, env, first, agent, second) ==
    LET failure == ValidationFailure(input_text, documents, images)
        messages == FirstMessages(input_text, documents, images, history)
        request1 == Request(messages, TRUE)
        handled == IF first.stopReason = "tool_use"
                   THEN HandledToolUses(first.message.content)
                   ELSE <<>>
        tools == [i \in 1..Len(handled) |-> RunTool(handled[i], env, agent)]
        request2 == Request(messages \o <<first.message>>
                                \o [i \in 1..Len(tools) |-> ToolResultMessage(tools[i].result)],
                            FALSE)
    IN  IF failure # "ok"
        THEN GmOutcome("ValueError", failure, NoMessage, <<>>, <<>>)
        ELSE IF first.raises
        THEN GmOutcome("ClientError", "first call", NoMessage, <<request1>>, <<>>)
        ELSE IF handled = <<>>
        THEN GmOutcome("", "", first.message, <<request1>>, <<>>)
        ELSE IF second.raises
        THEN GmOutcome("ClientError", "follow-up call", NoMessage, <<request1, request2>>, tools)
        ELSE GmOutcome("", "", second.message, <<request1, request2>>, tools)

-----------------------------------------------------------------------------
(* Session init (the top of the script, run at the start of every cycle) *)

\* SessionInit without the cut.
SessionInitKeepsAll(history) == history

\* SessionInit keeping the oldest entries.
SessionInitKeepsOldest(history) ==
    IF Len(history) > HistoryCap THEN Take(history, HistoryCap) ELSE history

\* SessionInit cutting to one entry less than the cap.
SessionInitCutsToOdd(history) ==
    IF Len(history) > HistoryCap THEN LastN(history, HistoryCap - 1) ELSE history

SessionInit(history) ==
    IF Len(history) > HistoryCap THEN LastN(history, HistoryCap) ELSE history

-----------------------------------------------------------------------------
(* Speech: transcribe_audio, decode_unicode_text, text_to_speech *)

\* Codes from EscapeBase up stand for a run of characters written as
\* \uXXXX escapes; EscapeBase + c is the escaped form of code c.
EscapeBase == 1000

Stt(kind, transcript) == [kind |-> kind, transcript |-> transcript]

\* What the transcription service may do with a recording.
SttRuns(n) ==
    { Stt("http_error", <<>>), Stt("timeout", <<>>), Stt("network_error", <<>>),
      Stt("ok", <<>>), Stt("ok", <<0, EscapeBase + n>>) }

transcribe_audio(sarvam_key, stt) ==
    IF ~sarvam_key
    THEN [raised |-> TRUE, error |-> "SARVAM API key not configured", transcript |-> <<>>]
    ELSE IF stt.kind = "http_error"
    THEN [raised |-> TRUE, error |-> "HTTP error during audio transcription", transcript |-> <<>>]
    ELSE IF stt.kind = "timeout"
    THEN [raised |-> TRUE, error |-> "Audio transcription timed out after 45 seconds",
          transcript |-> <<>>]
    ELSE IF stt.kind = "network_error"
    THEN [raised |-> TRUE, error |-> "Network error during audio transcription",
          transcript |-> <<>>]
    ELSE IF ~Truthy(stt.transcript)
    THEN [raised |-> TRUE, error |-> "Unexpected error during audio transcription",
          transcript |-> <<>>]
    ELSE [raised |-> FALSE, error |-> "", transcript |-> stt.transcript]

decode_unicode_text(text) ==
    IF \E i \in 1..Len(text) : text[i] >= EscapeBase
    THEN [i \in 1..Len(text) |-> IF text[i] >= EscapeBase THEN text[i] - EscapeBase ELSE text[i]]
    ELSE text

\* The audio recorder's value and what transcribing it meets.
Audio(rec, key, stt) == [recorded |-> rec, sarvam_key |-> key, stt |-> stt]

NoAudio == Audio(FALSE, TRUE, Stt("ok", <<>>))

AudioRuns(n) ==
    {NoAudio} \cup {Audio(TRUE, FALSE, Stt("ok", <<>>))}
        \cup {Audio(TRUE, TRUE, stt) : stt \in SttRuns(n)}

\* Lines 338-365 of main: the temporary file and the transcription.
\*   tmp_file  "none", or what became of this cycle's temporary WAV file
AudioStep(audio) ==
    IF ~audio.recorded
    THEN [aborted |-> FALSE, audio_prompt |-> None, tmp_file |-> "none", error |-> "",
          steps |-> <<>>]
    ELSE LET r == transcribe_audio(audio.sarvam_key, audio.stt)
         IN  IF r.raised
             THEN [aborted |-> TRUE, audio_prompt |-> None, tmp_file |-> "exists",
                   error |-> r.error,
                   steps |-> <<"tmp_create", "transcribe_audio", "st.error", "return">>]
             ELSE [aborted |-> FALSE, audio_prompt |-> decode_unicode_text(r.transcript),
                   tmp_file |-> "deleted", error |-> "",
                   steps |-> <<"tmp_create", "transcribe_audio", "os.unlink">>]

Tts(enabled, key, ok) == [enabled |-> enabled, sarvam_key |-> key, ok |-> ok]

TtsOff == Tts(FALSE, TRUE, TRUE)

\* The speech setting and what the synthesis service does.  The API key is
\* the one the transcription of this cycle saw.
TtsRuns(audio) ==
    {TtsOff, Tts(TRUE, TRUE, TRUE), Tts(TRUE, TRUE, FALSE)}
        \cup (IF audio.recorded THEN {} ELSE {Tts(TRUE, FALSE, TRUE)})

\* TRUE when text_to_speech returns audio, FALSE when it raises.
text_to_speech(tts) == tts.sarvam_key /\ tts.ok

-----------------------------------------------------------------------------
(* main: one turn (lines 379-408) *)

\* output_message['content'][0]['text']
ExtractText(message) ==
    IF message.content = <<>> THEN [raised |-> "IndexError", text |-> <<>>]
    ELSE IF ~IsText(message.content[1]) THEN [raised |-> "KeyError", text |-> <<>>]
    ELSE [raised |-> "", text |-> message.content[1].text]

Entry(role, text) == [role |-> role, text |-> text]

\* The backend traffic of a generate_message call, in order.
GmSteps(gm) ==
    (IF Len(gm.requests) >= 1 THEN <<"converse">> ELSE <<>>)
        \o (IF gm.tool_results # <<>> THEN <<"tool_result">> ELSE <<>>)
        \o (IF Len(gm.requests) >= 2 THEN <<"converse">> ELSE <<>>)

\* Turn with the user turn appended before generate_message is called.
TurnAppendsUserFirst(prompt, documents, images, history, env, first, agent, second, tts) ==
    LET gm == generate_message(prompt, documents, images, history, env, first, agent, second)
        x == ExtractText(gm.message)
        called == <<"append_user", "generate_message">> \o GmSteps(gm)
    IN  IF gm.raised # ""
        THEN [history |-> Append(history, Entry("user", prompt)), outcome |-> "turn_failed",
              error |-> gm.raised, steps |-> called \o <<"raise", "st.error">>]
        ELSE IF x.raised # ""
        THEN [history |-> Append(history, Entry("user", prompt)), outcome |-> "turn_failed",
              error |-> x.raised, steps |-> called \o <<"return", "raise", "st.error">>]
        ELSE [history |-> history \o <<Entry("user", prompt), Entry("assistant", x.text)>>,
              outcome |-> "turn_completed", error |-> "",
              steps |-> called \o <<"return", "extract_text", "append_assistant">>]

\* Turn with a failure of text_to_speech ending the turn as an error.
TurnAbortsOnTtsFailure(prompt, documents, images, history, env, first, agent, second, tts) ==
    LET gm == generate_message(prompt, documents, images, history, env, first, agent, second)
        x == ExtractText(gm.message)
        called == <<"generate_message">> \o GmSteps(gm)
    IN  IF gm.raised # ""
        THEN [history |-> history, outcome |-> "turn_failed", error |-> gm.raised,
              steps |-> called \o <<"raise", "st.error">>]
        ELSE IF x.raised # ""
        THEN [history |-> history, outcome |-> "turn_failed", error |-> x.raised,
              steps |-> called \o <<"return", "raise", "st.error">>]
        ELSE IF tts.enabled /\ ~text_to_speech(tts)
        THEN [history |-> history, outcome |-> "turn_failed", error |-> "Exception",
              steps |-> called \o <<"return", "extract_text", "text_to_speech", "raise",
                                    "st.error">>]
        ELSE [history |-> history \o <<Entry("user", prompt), Entry("assistant", x.text)>>,
              outcome |-> "turn_completed", error |-> "",
              steps |-> called \o <<"return", "extract_text">>
                            \o (IF tts.enabled THEN <<"text_to_speech", "st.audio">> ELSE <<>>)
                            \o <<"append_user", "append_assistant">>]

\* The try block of main.  The two appends are its last statements.
Turn(prompt, documents, images, history, env, first, agent, second, tts) ==
    LET gm == generate_message(prompt, documents, images, history, env, first, agent, second)
        x == ExtractText(gm.message)
        called == <<"generate_message">> \o GmSteps(gm)
        speech == IF ~tts.enabled THEN <<>>
                  ELSE IF text_to_speech(tts) THEN <<"text_to_speech", "st.audio">>
                  ELSE <<"text_to_speech", "st.warning">>
    IN  IF gm.raised # ""
        THEN [history |-> history, outcome |-> "turn_failed", error |-> gm.raised,
              steps |-> called \o <<"raise", "st.error">>]
        ELSE IF x.raised # ""
        THEN [history |-> history, outcome |-> "turn_failed", error |-> x.raised,
              steps |-> called \o <<"return", "raise", "st.error">>]
        ELSE [history |-> history \o <<Entry("user", prompt), Entry("assistant", x.text)>>,
              outcome |-> "turn_completed", error |-> "",
              steps |-> called \o <<"return", "extract_text">> \o speech
                            \o <<"append_user", "append_assistant">>]

\* ShouldRunTurn with an upload alone starting a turn.
ShouldRunTurnOnUpload(prompt, docs_changed, images_changed) ==
    Truthy(prompt) \/ docs_changed \/ images_changed

\* ShouldRunTurn with the change of the uploads not looked at.
ShouldRunTurnIgnoresUploads(prompt, docs_changed, images_changed) == Truthy(prompt)

\* Line 379: a turn runs for a prompt when no upload changed.
ShouldRunTurn(prompt, docs_changed, images_changed) ==
    Truthy(prompt) /\ ~(docs_changed \/ images_changed)

\* Line 377.
Prompt(text_input, audio_prompt) ==
    IF Truthy(text_input) THEN Strip(text_input)
    ELSE IF Truthy(audio_prompt) THEN Strip(audio_prompt)
    ELSE <<>>

-----------------------------------------------------------------------------
(* What the environment may feed one script run *)

\* The prompt texts of one conversation are told apart by their ordinal.
NextOrdinal(history) ==
    IF Len(history) < 2 THEN 1 ELSE history[Len(history) - 1].text[1] + 1

\* st.chat_input: nothing submitted, blanks, or a new prompt.
TextInputs(n) == { None, <<0>>, <<n, 0>> }

\* The backend is consulted only by a call that passes validation, the agent
\* only by a handled tool request that carries a query, and the follow-up
\* call is made only after a handled tool request.
FirstsFor(prompt, documents, images) ==
    IF ValidationFailure(prompt, documents, images) # "ok" THEN {Raises} ELSE FirstResponses

Handles(first) ==
    ~first.raises /\ first.stopReason = "tool_use"
        /\ HandledToolUses(first.message.content) # <<>>

AgentsFor(first) ==
    IF Handles(first) /\ "query" \in DOMAIN HandledToolUses(first.message.content)[1].input
    THEN {<<Env(FALSE, TRUE), AgentRun(TRUE, TRUE, <<>>, TRUE)>>}
            \cup {<<Env(TRUE, TRUE), a>> : a \in AgentRuns}
    ELSE {<<Env(TRUE, TRUE), AgentRun(TRUE, TRUE, <<>>, TRUE)>>}

SecondsFor(first) == IF Handles(first) THEN SecondResponses ELSE {Raises}

-----------------------------------------------------------------------------
(* The session *)

\* The report of a script run.
\*   start_history       chat_history when the run started
\*   init_history        chat_history after session init
\*   attachments_differ  the uploads differ from the last-seen lists
\*   prompt              the prompt of line 377
\*   tmp_file            "none", or what became of the run's temporary file
\*   steps               what the run did, in order
Report(action, start, init, differ, prompt, steps, outcome, error, tmp) ==
    [action |-> action, start_history |-> start, init_history |-> init,
     attachments_differ |-> differ, prompt |-> prompt, steps |-> steps,
     outcome |-> outcome, error |-> error, tmp_file |-> tmp]

NoReport == Report("none", <<>>, <<>>, FALSE, <<>>, <<>>, "", "", "none")

NoArgs == [called |-> FALSE]

Init ==
    /\ chat_history = <<>>
    /\ last_uploaded_docs = <<>>
    /\ last_uploaded_images = <<>>
    /\ recorded = 0
    /\ cycle = NoReport
    /\ gm_args = NoArgs
    /\ gm_result = <<>>
    /\ sf_arg = <<>>
    /\ sf_result = <<>>

\* The "Clear Conversation" button: the run empties the history and ends at
\* st.rerun(); the rerun is the next Render.
ClearConversation ==
    /\ chat_history' = <<>>
    /\ cycle' = Report("clear", chat_history, SessionInit(chat_history), FALSE, <<>>,
                       <<"session_init", "clear_history", "st.rerun">>, "cleared", "",
                       "none")
    /\ UNCHANGED <<last_uploaded_docs, last_uploaded_images, recorded, gm_args, gm_result,
                   sf_arg, sf_result>>

\* Every way the try block of main can go for one prompt: the backend's
\* answers, the agent's behaviour and the speech service's are free.
TurnResults(prompt, documents, images, history, audio) ==
    UNION { UNION { UNION {
        { Turn(prompt, documents, images, history, ea[1], first, ea[2], second, tts) :
            tts \in TtsRuns(audio) } :
        second \in SecondsFor(first) } :
        ea \in AgentsFor(first) } :
        first \in FirstsFor(prompt, documents, images) }

\* A script run in which the Clear button was not clicked: session init, then
\* main() to its end.
Render ==
    /\ UNCHANGED <<gm_args, gm_result, sf_arg, sf_result>>
    /\ \E documents \in UploadedDocs, images \in UploadedImages :
       \E text_input \in TextInputs(NextOrdinal(chat_history)),
          audio \in AudioRuns(NextOrdinal(chat_history)) :
          LET init == SessionInit(chat_history)
              a == AudioStep(audio)
              docs_changed == documents # last_uploaded_docs
              images_changed == images # last_uploaded_images
              prompt == Prompt(text_input, a.audio_prompt)
              report(p, steps, outcome, error) ==
                  Report("render", chat_history, init, docs_changed \/ images_changed,
                         p, <<"session_init">> \o a.steps \o steps, outcome, error,
                         a.tmp_file)
          IN  IF a.aborted
              THEN /\ chat_history' = init
                   /\ cycle' = report(<<>>, <<>>, "transcription_failed", a.error)
                   /\ UNCHANGED <<last_uploaded_docs, last_uploaded_images, recorded>>
              ELSE IF ~ShouldRunTurn(prompt, docs_changed, images_changed)
              THEN /\ chat_history' = init
                   /\ last_uploaded_docs' = documents
                   /\ last_uploaded_images' = images
                   /\ cycle' = report(prompt, <<"last_uploaded">>, "no_turn", "")
                   /\ UNCHANGED recorded
              ELSE \E t \in TurnResults(prompt, documents, images, init, audio) :
                   /\ t.outcome = "turn_completed" => recorded < MaxTurns
                   /\ chat_history' = t.history
                   /\ last_uploaded_docs' = documents
                   /\ last_uploaded_images' = images
                   /\ recorded' = IF t.outcome = "turn_completed"
                                  THEN recorded + 1 ELSE recorded
                   /\ cycle' = report(prompt, <<"last_uploaded">> \o t.steps, t.outcome,
                                   t.error)

Next == ClearConversation \/ Render

Spec == Init /\ [][Next]_vars

-----------------------------------------------------------------------------
(* A session that has already recorded many turns *)

\* chat_history after k completed turns of one conversation.
RecordedTurns(k) ==
    [i \in 1..(2 * k) |->
        IF i % 2 = 1 THEN Entry("user", <<(i + 1) \div 2>>) ELSE Entry("assistant", <<100>>)]

\* The session holds HistoryCap entries.
InitLong ==
    /\ chat_history = RecordedTurns(HistoryCap \div 2)
    /\ last_uploaded_docs = <<>>
    /\ last_uploaded_images = <<>>
    /\ recorded = 0
    /\ cycle = NoReport
    /\ gm_args = NoArgs
    /\ gm_result = <<>>
    /\ sf_arg = <<>>
    /\ sf_result = <<>>

SpecLong == InitLong /\ [][Next]_vars

-----------------------------------------------------------------------------
(* generate_message on its own: any arguments, one call *)

GmArgs(input_text, documents, images, history, env, first, agent, second) ==
    [input_text |-> input_text, documents |-> documents, images |-> images,
     history |-> history, env |-> env, first |-> first, agent |-> agent,
     second |-> second]

PromptTexts == { <<>>, <<0>>, <<0, 0>>, <<1>> }

GmArgSets ==
    UNION { UNION { UNION {
        { GmArgs(t, d, i, h, ea[1], first, ea[2], second) :
            second \in SecondsFor(first), h \in {<<>>, RecordedTurns(1)} } :
        ea \in AgentsFor(first) } :
        first \in FirstsFor(t, d, i) } :
        t \in PromptTexts, d \in DocSets, i \in ImgSets }

InitGM ==
    /\ chat_history = <<>>
    /\ last_uploaded_docs = <<>>
    /\ last_uploaded_images = <<>>
    /\ recorded = 0
    /\ cycle = NoReport
    /\ gm_args \in GmArgSets
    /\ gm_result = <<>>
    /\ sf_arg = <<>>
    /\ sf_result = <<>>

CallGenerateMessage ==
    /\ gm_args # NoArgs
    /\ gm_result = <<>>
    /\ gm_result' = << generate_message(gm_args.input_text, gm_args.documents,
                                        gm_args.images, gm_args.history, gm_args.env,
                                        gm_args.first, gm_args.agent, gm_args.second) >>
    /\ UNCHANGED <<chat_history, last_uploaded_docs, last_uploaded_images, recorded,
                   cycle, gm_args, sf_arg, sf_result>>

NextGM == CallGenerateMessage

SpecGM == InitGM /\ [][NextGM]_vars

-----------------------------------------------------------------------------
(* sanitize_filename on its own: any name, applied to its own result *)

\* A letter, the dot, two whitespace characters and a disallowed character.
NameChars == {"a", ".", " ", "\t", "$"}

FileNames == UNION { [1..k -> NameChars] : k \in 0..MaxNameLen }

InitSF ==
    /\ chat_history = <<>>
    /\ last_uploaded_docs = <<>>
    /\ last_uploaded_images = <<>>
    /\ recorded = 0
    /\ cycle = NoReport
    /\ gm_args = NoArgs
    /\ gm_result = <<>>
    /\ sf_arg \in FileNames
    /\ sf_result = <<>>

\* sanitize_filename applied to the name, then to what it returned.
CallSanitizeFilename ==
    /\ Len(sf_result) < 2
    /\ sf_result' = Append(sf_result,
                           sanitize_filename(IF sf_result = <<>> THEN sf_arg
                                             ELSE sf_result[Len(sf_result)]))
    /\ UNCHANGED <<chat_history, last_uploaded_docs, last_uploaded_images, recorded,
                   cycle, gm_args, gm_result, sf_arg>>

NextSF == CallSanitizeFilename

SpecSF == InitSF /\ [][NextSF]_vars

-----------------------------------------------------------------------------
(* Properties of the session (checked under Spec and SpecLong) *)

\* The first place of step e in a run's steps, 0 when it is not among them.
StepAt(e) ==
    LET at == {i \in 1..Len(cycle.steps) : cycle.steps[i] = e}
    IN  IF at = {} THEN 0 ELSE CHOOSE i \in at : \A j \in at : i <= j

TurnAttempted == cycle.action = "render" /\ StepAt("generate_message") > 0

\* The most recent HistoryCap entries of h, oldest first.
CutToCap(h) ==
    IF Len(h) > HistoryCap THEN [i \in 1..HistoryCap |-> h[Len(h) - HistoryCap + i]] ELSE h

\* A run that attempted a turn left chat_history as `base` when the turn
\* failed, and as `base` followed by the user turn and the assistant turn,
\* appended after generate_message returned and the text was extracted,
\* when it completed.
TurnUpdatesHistoryFrom(base) ==
    /\ cycle.outcome \in {"turn_completed", "turn_failed"}
    /\ cycle.outcome = "turn_failed" =>
          /\ chat_history = base
          /\ StepAt("append_user") = 0 /\ StepAt("append_assistant") = 0
    /\ cycle.outcome = "turn_completed" =>
          /\ Len(chat_history) = Len(base) + 2
          /\ SubSeq(chat_history, 1, Len(base)) = base
          /\ chat_history[Len(base) + 1] = [role |-> "user", text |-> cycle.prompt]
          /\ chat_history[Len(base) + 2].role = "assistant"
          /\ 0 < StepAt("return")
          /\ StepAt("return") < StepAt("extract_text")
          /\ StepAt("extract_text") < StepAt("append_user")
          /\ StepAt("append_assistant") = StepAt("append_user") + 1
          /\ StepAt("append_assistant") = Len(cycle.steps)

\* C1 as stated: in a render cycle that attempts a turn, chat_history is
\* changed only by appending the user turn and the assistant turn after
\* generate_message returned and the text was extracted, and a failed turn
\* leaves chat_history as it was at the start of the cycle.
C1_HistoryFromCycleStart == TurnAttempted => TurnUpdatesHistoryFrom(cycle.start_history)

\* C1 amended: the same, counted from the history that session init leaves
\* at the start of the cycle (the last 50 entries of a longer history).
C1_HistoryFromSessionInit ==
    TurnAttempted => TurnUpdatesHistoryFrom(CutToCap(cycle.start_history))

\* A turn failed in a cycle whose session init had cut the history.
C1_Witness ==
    /\ TurnAttempted
    /\ cycle.outcome = "turn_failed"
    /\ Len(cycle.start_history) > HistoryCap

\* C6 as stated: when the uploads differ from the last-seen lists and no
\* prompt was submitted, generate_message is not invoked and chat_history is
\* left unchanged.
C6_UploadAloneLeavesHistory ==
    (cycle.action = "render" /\ cycle.attachments_differ /\ cycle.prompt = <<>>) =>
        /\ StepAt("generate_message") = 0
        /\ chat_history = cycle.start_history

\* C6 amended: in such a cycle generate_message is not invoked and
\* chat_history is changed by nothing but the session-init cut to its last
\* 50 entries.
C6_UploadAloneRunsNoTurn ==
    (cycle.action = "render" /\ cycle.attachments_differ /\ cycle.prompt = <<>>) =>
        /\ StepAt("generate_message") = 0
        /\ chat_history = CutToCap(cycle.start_history)

\* An upload changed, nothing was submitted, and the run went past the
\* comparison of the uploads.
C6_Witness ==
    /\ cycle.action = "render"
    /\ cycle.attachments_differ
    /\ cycle.prompt = <<>>
    /\ cycle.outcome = "no_turn"
    /\ chat_history # <<>>

\* C8 as stated: chat_history never holds more than 50 entries.
C8_AtMostCap == Len(chat_history) <= HistoryCap

\* C8 amended: chat_history holds at most 50 entries after session init and
\* at most 52 (the cap and one turn) in every session state.
C8_AtMostCapPlusTurn ==
    /\ Len(chat_history) <= HistoryCap + 2
    /\ Len(cycle.init_history) <= HistoryCap

\* A run started from a history above the cap and recorded a turn.
C8_Witness ==
    /\ Len(cycle.start_history) = HistoryCap + 2
    /\ cycle.outcome = "turn_completed"
    /\ Len(chat_history) = HistoryCap + 2

\* C9: session init turns a history of more than 50 entries into its 50
\* most recent entries in their order, and leaves a shorter one unchanged.
C9_TruncationKeepsMostRecent ==
    cycle.action # "none" =>
        /\ Len(cycle.start_history) <= HistoryCap => cycle.init_history = cycle.start_history
        /\ Len(cycle.start_history) > HistoryCap =>
              /\ Len(cycle.init_history) = HistoryCap
              /\ \A i \in 1..HistoryCap :
                    cycle.init_history[i] =
                        cycle.start_history[Len(cycle.start_history) - HistoryCap + i]

\* Session init ran on a history longer than the cap.
C9_Witness == cycle.action = "render" /\ Len(cycle.start_history) > HistoryCap

\* C10 as stated: after a render cycle no temporary WAV file of that cycle
\* is left, whether the transcription returned or raised.
C10_TempFileDeleted == cycle.tmp_file # "exists"

-----------------------------------------------------------------------------
(* Properties of generate_message (checked under SpecGM) *)

Called == gm_result # <<>>

Outcome == gm_result[1]

\* The call got the first response from the backend.
GotFirstResponse == Called /\ Len(Outcome.requests) >= 1 /\ ~gm_args.first.raises

FirstContent == gm_args.first.message.content

\* The places of the toolUse entries named government_scheme_info in the
\* first response.
GovEntries ==
    {i \in 1..Len(FirstContent) :
        IsToolUse(FirstContent[i]) /\ FirstContent[i].toolUse.name = GovTool}

ToolUseFirst == GotFirstResponse /\ gm_args.first.stopReason = "tool_use"

\* C2 as stated: after a first response with stopReason tool_use the tool is
\* invoked once for each of its toolUse entries named government_scheme_info.
C2_OneInvocationPerEntry ==
    ToolUseFirst => Len(Outcome.tool_calls) = Cardinality(GovEntries)

\* C3 as stated: after a first response with stopReason tool_use exactly one
\* follow-up call is made and its output is the message returned.
C3_AlwaysFollowsUp ==
    ToolUseFirst =>
        /\ Len(Outcome.requests) = 2
        /\ Outcome.raised = "" => Outcome.message = gm_args.second.message

\* C3 amended: when the tool_use response holds a toolUse entry named
\* government_scheme_info, exactly one follow-up call is made and, unless
\* that call raises, its output is returned whatever its stopReason; when it
\* holds none, no follow-up call is made and the first output is returned.
C3_FollowsUpHandledToolUse ==
    ToolUseFirst =>
        IF GovEntries # {}
        THEN /\ Len(Outcome.requests) = 2
             /\ IF gm_args.second.raises
                THEN Outcome.raised = "ClientError"
                ELSE Outcome.raised = "" /\ Outcome.message = gm_args.second.message
        ELSE /\ Len(Outcome.requests) = 1
             /\ Outcome.raised = ""
             /\ Outcome.message = gm_args.first.message

\* The follow-up answered tool_use again and its output was returned.
C3_Witness ==
    /\ ToolUseFirst
    /\ GovEntries # {}
    /\ ~gm_args.second.raises
    /\ gm_args.second.stopReason = "tool_use"
    /\ Outcome.message = gm_args.second.message
    /\ Outcome.message # gm_args.first.message

\* The tool was asked to run and failed: its input carries no query, the
\* agent client could not be made, invoke_agent raised or the stream broke.
ToolFailed ==
    /\ ToolUseFirst
    /\ GovEntries # {}
    /\ LET tool == FirstContent[CHOOSE i \in GovEntries : \A j \in GovEntries : i <= j].toolUse
       IN  \/ "query" \notin DOMAIN tool.input
           \/ /\ gm_args.env.agent_ids
              /\ \/ ~gm_args.agent.client_ok
                 \/ ~gm_args.agent.invoke_ok
                 \/ ~gm_args.agent.stream_ok

\* C4 as stated: a failing tool execution is not propagated; a ToolResult
\* with status=error is built, the follow-up call is made with it and the
\* turn completes.
C4_ToolFailureIsErrorResult ==
    ToolFailed =>
        /\ Len(Outcome.tool_results) = 1
        /\ "status" \in DOMAIN Outcome.tool_results[1]
        /\ Outcome.tool_results[1].status = "error"
        /\ Len(Outcome.requests) = 2
        /\ Outcome.requests[2].messages[Len(Outcome.requests[2].messages)]
              = Message("user", <<[toolResult |-> Outcome.tool_results[1]]>>)
        /\ ~gm_args.second.raises => Outcome.raised = ""

\* A text of whitespace characters only (the empty text included).
Blank(t) == \A i \in 1..Len(t) : t[i] = 0

\* C5: generate_message with an empty or whitespace-only prompt raises the
\* validation error and calls neither the backend nor the tool, whatever the
\* documents, images and history.
C5_BlankPromptIsRejected ==
    (Called /\ Blank(gm_args.input_text)) =>
        /\ Outcome.raised = "ValueError"
        /\ Outcome.detail = "Input text cannot be empty"
        /\ Outcome.requests = <<>>
        /\ Outcome.tool_calls = <<>>
        /\ Outcome.agent_calls = 0

\* A whitespace-only prompt was passed with uploads and a history.
C5_Witness ==
    /\ Called
    /\ gm_args.input_text = <<0, 0>>
    /\ gm_args.documents # <<>>
    /\ gm_args.images # <<>>
    /\ gm_args.history # <<>>
    /\ Outcome.raised = "ValueError"

\* The format of a document: what follows the last dot of its name, in
\* lower case.
DocFormatOf(doc) == Lower(SplitLast(doc.name, "."))

BadDoc(doc) == doc.size > DocLimit \/ DocFormatOf(doc) \notin DocFormats

BadImage(img) == img.size > ImageLimit

RejectedAtValidation == Outcome.raised = "ValueError" /\ Outcome.requests = <<>>

\* C7 as stated: the call fails with a validation error before any backend
\* call when there are more than 5 documents or more than 20 images, or any
\* document or image breaks its size or format constraint.
C7_AnyViolationIsRejected ==
    (/\ Called
     /\ \/ Len(gm_args.documents) > MaxDocs
        \/ Len(gm_args.images) > MaxImages
        \/ \E i \in 1..Len(gm_args.documents) : BadDoc(gm_args.documents[i])
        \/ \E i \in 1..Len(gm_args.images) : BadImage(gm_args.images[i]))
    => RejectedAtValidation

\* C7 amended: the call fails with a validation error before any backend
\* call when one of the first 5 documents or of the first 20 images breaks
\* its constraint; documents after the fifth and images after the twentieth
\* are dropped and never make the call fail.
C7_ViolationAmongUsedIsRejected ==
    Called =>
        LET bad == \/ \E i \in 1..Len(gm_args.documents) :
                          i <= MaxDocs /\ BadDoc(gm_args.documents[i])
                   \/ \E i \in 1..Len(gm_args.images) :
                          i <= MaxImages /\ BadImage(gm_args.images[i])
        IN  /\ bad => RejectedAtValidation
            /\ (~bad /\ ~Blank(gm_args.input_text)) => Outcome.raised # "ValueError"

\* Six documents and twenty-one images, the last of each over its limit,
\* passed validation.
C7_Witness ==
    /\ Called
    /\ Len(gm_args.documents) > MaxDocs
    /\ Len(gm_args.images) > MaxImages
    /\ BadDoc(gm_args.documents[Len(gm_args.documents)])
    /\ BadImage(gm_args.images[Len(gm_args.images)])
    /\ Len(Outcome.requests) >= 1

-----------------------------------------------------------------------------
(* Speech output and the turn (checked under Spec) *)

SpeechSteps == {"text_to_speech", "st.audio", "st.warning"}

WithoutSpeech(steps) == SelectSeq(steps, LAMBDA e : e \notin SpeechSteps)

\* The steps of the run from the call of generate_message on.
TurnSteps == SubSeq(cycle.steps, StepAt("generate_message"), Len(cycle.steps))

\* The run called text_to_speech and played no audio.
TtsFailed ==
    cycle.action = "render" /\ StepAt("text_to_speech") > 0 /\ StepAt("st.audio") = 0

\* The ways the same turn can go with speech disabled.
SilentTurns ==
    { t \in TurnResults(cycle.prompt, last_uploaded_docs, last_uploaded_images,
                        cycle.init_history, NoAudio) :
        \A i \in 1..Len(t.steps) : t.steps[i] \notin SpeechSteps }

\* C11: when generate_message succeeded, speech is enabled and
\* text_to_speech raises, the failure is a warning and the cycle still
\* appends the user turn and the assistant turn, exactly as a turn without
\* speech does.
C11_TtsFailureKeepsTurn ==
    TtsFailed =>
        /\ cycle.outcome = "turn_completed"
        /\ StepAt("st.warning") = StepAt("text_to_speech") + 1
        /\ StepAt("st.error") = 0
        /\ Len(chat_history) = Len(cycle.init_history) + 2
        /\ SubSeq(chat_history, 1, Len(cycle.init_history)) = cycle.init_history
        /\ chat_history[Len(chat_history) - 1] = Entry("user", cycle.prompt)
        /\ chat_history[Len(chat_history)].role = "assistant"
        /\ \E t \in SilentTurns :
              t.history = chat_history /\ t.steps = WithoutSpeech(TurnSteps)

\* text_to_speech raised after a reply that came from a follow-up call.
C11_Witness ==
    /\ TtsFailed
    /\ StepAt("tool_result") > 0
    /\ cycle.outcome = "turn_completed"
    /\ chat_history # <<>>

-----------------------------------------------------------------------------
(* Configuration and unknown tools (checked under SpecGM) *)

\* C12 as stated: a missing Bedrock agent id or alias id is detected before
\* any network call of the turn and the call ends in an error instead of
\* the turn continuing.
C12_MissingConfigStopsBeforeNetwork ==
    (Called /\ ~gm_args.env.agent_ids) =>
        /\ Outcome.requests = <<>>
        /\ Outcome.raised # ""

\* The places of the toolUse entries of another name in the first response.
OtherToolEntries ==
    {i \in 1..Len(FirstContent) :
        IsToolUse(FirstContent[i]) /\ FirstContent[i].toolUse.name # GovTool}

\* C13 as stated: a toolUse entry of another name is a no-op: no tool runs
\* for it, no ToolResult is built for it, and the turn does not end in an
\* error because of it, also when it is the only toolUse entry: the call
\* returns and main extracts the reply text from what it returned.
C13_UnknownToolIsNoOp ==
    (ToolUseFirst /\ OtherToolEntries # {}) =>
        /\ \A i \in OtherToolEntries : \A k \in 1..Len(Outcome.tool_results) :
              Outcome.tool_results[k].toolUseId # FirstContent[i].toolUse.toolUseId
        /\ Len(Outcome.tool_calls) <= Cardinality(GovEntries)
        /\ GovEntries = {} =>
              /\ Outcome.tool_calls = <<>>
              /\ Outcome.raised = ""
              /\ ExtractText(Outcome.message).raised = ""

-----------------------------------------------------------------------------
(* Attachments and backend traffic of one call (checked under SpecGM) *)

\* The documents and images the call looks at.
SeenDocs == {i \in 1..Len(gm_args.documents) : i <= MaxDocs}

SeenImages == {i \in 1..Len(gm_args.images) : i <= MaxImages}

\* C14: the size ceilings are inclusive: a call whose documents are of
\* 4718592 bytes at most (in a supported format) and whose images are of
\* 3932160 bytes at most is not rejected, and a document of 4718593 bytes or
\* an image of 3932161 bytes is rejected with a validation error before any
\* backend call.
C14_SizeCeilingsInclusive ==
    (Called /\ ~Blank(gm_args.input_text)) =>
        /\ (/\ \A i \in SeenDocs :
                  /\ gm_args.documents[i].size <= DocLimit
                  /\ DocFormatOf(gm_args.documents[i]) \in DocFormats
            /\ \A i \in SeenImages : gm_args.images[i].size <= ImageLimit)
            => Outcome.raised # "ValueError"
        /\ (\E i \in SeenDocs : gm_args.documents[i].size = DocLimit + 1)
            => (RejectedAtValidation /\ Outcome.detail # "Input text cannot be empty")
        /\ (\E i \in SeenImages : gm_args.images[i].size = ImageLimit + 1)
            => (RejectedAtValidation /\ Outcome.detail # "Input text cannot be empty")

\* A document of exactly 4718592 bytes and an image of exactly 3932160 bytes
\* went to the backend.
C14_Witness ==
    /\ Called
    /\ \E i \in SeenDocs : gm_args.documents[i].size = DocLimit
    /\ \E i \in SeenImages : gm_args.images[i].size = ImageLimit
    /\ Len(Outcome.requests) >= 1
    /\ Outcome.raised # "ValueError"

\* The content of the user message that ends the first request.
FirstUserMessage == Outcome.requests[1].messages[Len(Outcome.requests[1].messages)]

\* C16: the user message of the first backend call holds exactly one text
\* block, the prompt, in first place, then the document blocks, then the
\* image blocks, at most 5 document blocks and at most 20 image blocks,
\* whatever the number of uploads.
C16_FirstRequestContent ==
    (Called /\ Len(Outcome.requests) >= 1) =>
        LET content == FirstUserMessage.content
            nd == Cardinality(SeenDocs)
            ni == Cardinality(SeenImages)
        IN  /\ FirstUserMessage.role = "user"
            /\ Len(content) = 1 + nd + ni
            /\ content[1] = TextBlock(gm_args.input_text)
            /\ Cardinality({i \in 1..Len(content) : IsText(content[i])}) = 1
            /\ Cardinality({i \in 1..Len(content) : "document" \in DOMAIN content[i]})
                  <= MaxDocs
            /\ Cardinality({i \in 1..Len(content) : "image" \in DOMAIN content[i]})
                  <= MaxImages
            /\ \A i \in 1..nd :
                  /\ DOMAIN content[1 + i] = {"document"}
                  /\ content[1 + i].document.source = gm_args.documents[i].bytes
            /\ \A i \in 1..ni :
                  /\ DOMAIN content[1 + nd + i] = {"image"}
                  /\ content[1 + nd + i].image.source = gm_args.images[i].bytes

\* More than 5 documents and more than 20 images were uploaded and the
\* first request carried 1 + 5 + 20 blocks.
C16_Witness ==
    /\ Called
    /\ Len(gm_args.documents) > MaxDocs
    /\ Len(gm_args.images) > MaxImages
    /\ Len(Outcome.requests) >= 1
    /\ Len(FirstUserMessage.content) = 1 + MaxDocs + MaxImages

\* C17: a call makes at most two backend calls and at most one tool
\* invocation; a follow-up response with stopReason tool_use is returned as
\* it is, with no further tool invocation and no third backend call.
C17_AtMostTwoBackendCalls ==
    Called =>
        /\ Len(Outcome.requests) <= 2
        /\ Len(Outcome.tool_calls) <= 1
        /\ Len(Outcome.tool_results) <= 1
        /\ Outcome.agent_calls <= 1
        /\ (/\ Len(Outcome.requests) >= 2
            /\ ~gm_args.second.raises
            /\ gm_args.second.stopReason = "tool_use")
            => /\ Len(Outcome.requests) = 2
               /\ Outcome.raised = ""
               /\ Outcome.message = gm_args.second.message

\* The follow-up response asked for the tool again.
C17_Witness ==
    /\ Called
    /\ Len(Outcome.requests) = 2
    /\ ~gm_args.second.raises
    /\ gm_args.second.stopReason = "tool_use"
    /\ \E i \in 1..Len(gm_args.second.message.content) :
          /\ IsToolUse(gm_args.second.message.content[i])
          /\ gm_args.second.message.content[i].toolUse.name = GovTool
    /\ Len(Outcome.tool_calls) = 1

\* C18 as stated: the follow-up request's messages are the first request's
\* followed by the assistant's tool_use message and one user message that
\* carries the ToolResult of the dispatched invocation, and every toolUse
\* entry of the assistant message has a ToolResult with its toolUseId in
\* that user message.
C18_FollowUpAnswersEveryToolUse ==
    (Called /\ Len(Outcome.requests) = 2) =>
        LET m1 == Outcome.requests[1].messages
            m2 == Outcome.requests[2].messages
            last == m2[Len(m2)]
        IN  /\ Len(m2) = Len(m1) + 2
            /\ SubSeq(m2, 1, Len(m1)) = m1
            /\ m2[Len(m1) + 1] = gm_args.first.message
            /\ last.role = "user"
            /\ last.content = [k \in 1..Len(Outcome.tool_results) |->
                                  [toolResult |-> Outcome.tool_results[k]]]
            /\ Len(Outcome.tool_results) >= 1
            /\ \A e \in 1..Len(FirstContent) :
                  IsToolUse(FirstContent[e]) =>
                      \E r \in 1..Len(last.content) :
                          last.content[r].toolResult.toolUseId
                              = FirstContent[e].toolUse.toolUseId

-----------------------------------------------------------------------------
(* Properties of sanitize_filename (checked under SpecSF) *)

\* C15: sanitize_filename is idempotent: applied to its own result it
\* returns that result.
C15_SanitizeIdempotent == Len(sf_result) = 2 => sf_result[2] = sf_result[1]

\* A name with several dots, leading whitespace and a disallowed character
\* was sanitized twice, and the first application changed it.
C15_Witness ==
    /\ Len(sf_result) = 2
    /\ Cardinality({i \in 1..Len(sf_arg) : sf_arg[i] = "."}) >= 2
    /\ sf_arg[1] \in SpaceChars
    /\ \E i \in 1..Len(sf_arg) : sf_arg[i] = "$"
    /\ sf_result[1] # sf_arg
    /\ sf_result[1] # <<>>

-----------------------------------------------------------------------------
(* Shape of the history and upload cycles (checked under SpecLong) *)

\* h has even length and its roles go user, assistant, user, assistant, ...
Alternates(h) ==
    /\ Len(h) % 2 = 0
    /\ \A i \in 1..Len(h) : h[i].role = (IF i % 2 = 1 THEN "user" ELSE "assistant")

\* C19: in every session state chat_history has even length and alternates
\* roles from a user entry on, also after the cut to 50 entries and after
\* Clear Conversation, and so does the history session init hands to the
\* turn, which generate_message projects before the new user message.
C19_HistoryAlternates ==
    /\ Alternates(chat_history)
    /\ Alternates(cycle.init_history)
    /\ cycle.action = "clear" => chat_history = <<>>

\* Session init cut a longer history and the turn of that run was recorded
\* after it.
C19_Witness ==
    /\ cycle.action = "render"
    /\ Len(cycle.start_history) > HistoryCap
    /\ Len(cycle.init_history) = HistoryCap
    /\ cycle.init_history[1].role = "user"
    /\ cycle.init_history[1] # cycle.start_history[1]
    /\ cycle.outcome = "turn_completed"
    /\ Alternates(chat_history)

====
